---- MODULE Spec2Model ----
(***************************************************************************)
(* A model of exegol/utils/GitUtils.py: the GitUtils facade over the       *)
(* GitPython SDK, together with the part of the world it acts on (the      *)
(* .git marker of the path, the local repository, its origin remote and    *)
(* its submodules).  Every method is one atomic action: the class is       *)
(* synchronous and single threaded.  A method's outcome is observed in     *)
(* op/arg/ret: ret is the returned value, or the name of the exception     *)
(* that reached the caller.                                                *)
(***************************************************************************)
EXTENDS Integers, FiniteSets, Sequences, TLC

\* ------------------------------------------------------------------ bounds
\* Commits are sets of changes drawn from 1..MaxChange.
MaxChange == 2
\* Submodule revisions are 0..MaxSubRev.
MaxSubRev == 1
\* Events of the world (edits, commits, pushes) in one run.
MaxEnvSteps == 2

\* ------------------------------------------------------------- vocabulary
Branches == {"master", "dev"}
\* The branch a fresh clone checks out.
DefaultBranch == "master"
\* Python's None: a detached HEAD, or the default of isUpToDate's argument.
None == "None"
Changes == 1..MaxChange
Commits == SUBSET Changes
\* The value of a reference that does not exist.
NoRef == {0}
\* The root commit.
Root == {}
\* The names the facade is constructed with (the default, and a resource repo).
Names == {"wrapper", "exegol-resources"}
\* The submodules of the repository, and the names submoduleSourceUpdate is asked
\* for: a submodule, and a name that is none.
Submodules == {"exegol-resources", "exegol-images"}
SubmoduleNames == {"exegol-resources", "unknown"}
\* The revision of a submodule the superproject records.
PinnedRev == 0

VARIABLES
  \* --- the world
  gitModule,    \* what "from git import ..." does: "ok", "ModuleNotFoundError", "ImportError"
  gitEntry,     \* the path's .git: "missing" (no such path), "absent", "dir", "file"
  repoValid,    \* whether Repo(path) opens the repository
  remotes,      \* the repository's remotes: "none", "origin", "other" (none named origin)
  singleBranch, \* the remote's refspec covers the default branch only (a --depth=1 clone)
  head,         \* the checked-out branch, None when HEAD is detached
  detachedAt,   \* the commit of a detached HEAD, NoRef when attached
  heads,        \* local branches: [Branches -> Commits \cup {NoRef}]
  originRefs,   \* remote-tracking references origin/<b>
  upstream,     \* the branches of the remote itself
  dirty,        \* uncommitted changes of the working tree outside submodules
  subs,         \* [Submodules -> [init, rev, dirty]]
  subUp,        \* the latest upstream revision of each submodule
  \* --- the facade
  phase,        \* "unopened", "constructed", "failed" (the constructor raised)
  isAvailable,
  is_submodule,
  git_name,
  gitRepo,      \* __gitRepo: "unset" (attribute never assigned), "None", "Repo"
  gitRemote,    \* __gitRemote: "unset", "None", "origin"
  \* --- the last call, as its caller sees it
  op, arg, ret,
  log,          \* the messages the call logged (one tag per logger call site)
  nPull,        \* pulls the last call performed
  listed,       \* the branches the last listBranch returned
  fail,         \* the VCS command that failed during the last call, "none" for none
  pre,          \* availability, head, heads and submodules before the last call
  envSteps      \* events of the world so far

world == <<gitModule, gitEntry, repoValid, remotes, singleBranch, head, detachedAt,
           heads, originRefs, upstream, dirty, subs, subUp>>
facade == <<phase, isAvailable, is_submodule, git_name, gitRepo, gitRemote>>
call == <<op, arg, ret, log, nPull, listed, fail, pre>>
vars == <<world, facade, call, envSteps>>

\* ---------------------------------------------------------------- helpers
Exists(refs, b) == b \in Branches /\ refs[b] # NoRef
NoRefs == [b \in Branches |-> NoRef]
Snapshot == [isAvailable |-> isAvailable, head |-> head, detachedAt |-> detachedAt,
             heads |-> heads, subs |-> subs]
NoSub == [init |-> FALSE, rev |-> 0, dirty |-> FALSE]

\* A slip in isUpToDate: the two commits handed to is_ancestor the other way round.
IsAncestorSwapped(a, c) == c \subseteq a

\* Repo.is_ancestor(ancestor, rev): git merge-base --is-ancestor.
IsAncestor(a, c) == a \subseteq c

\* The commit HEAD points to.
HeadCommit == IF head = None THEN detachedAt ELSE heads[head]

\* Whether Remote.fetch() reports branch b: the remote has it and the refspec covers it.
Fetched(b) == Exists(upstream, b) /\ (singleBranch => b = DefaultBranch)
\* Remote.fetch(): the remote-tracking references after a fetch that succeeded.
FetchRefs == [b \in Branches |-> IF Fetched(b) THEN upstream[b] ELSE originRefs[b]]

\* ------------------------------------------------------------ construction
\* A slip in __init__: ReferenceError is raised only for a path that exists.
AbortLoadingExistingPathOnly == gitEntry = "absent"

\* __init__, lines 24-38: no .git entry at the path aborts the loading.
AbortLoading == gitEntry \in {"missing", "absent"}

\* Repo(str(path)), line 56: what opening the repository does.
OpenRepo ==
  IF gitEntry = "missing" THEN "NoSuchPathError"
  ELSE IF gitEntry = "absent" \/ ~repoValid THEN "InvalidGitRepositoryError"
  ELSE "ok"

\* The submodules __initSubmodules skips.
blacklist_heavy_modules == {"exegol-resources"}

\* __initSubmodules: Submodule.update(recursive=True) of every submodule off the
\* blacklist checks the recorded revision out where the submodule is not there yet;
\* a submodule repository never initialises its own submodules.
InitSubmodules(isSub, ss) ==
  IF isSub THEN ss
  ELSE [s \in Submodules |->
          IF s \notin blacklist_heavy_modules /\ ~ss[s].init
          THEN [init |-> TRUE, rev |-> PinnedRev, dirty |-> FALSE]
          ELSE ss[s]]

\* Whether __initSubmodules has a submodule to clone (a network operation).
NeedsSubmoduleClone(isSub, ss) ==
  ~isSub /\ \E s \in Submodules \ blacklist_heavy_modules : ~ss[s].init

\* __init_repo: the facade becomes available, resolves origin and initialises the
\* submodules. rem: the repository's remotes; netOk: whether the submodule clones
\* succeed. The result is the exception raised ("ok" for none) and the fields set.
InitRepo(rem, isSub, ss, netOk) ==
  IF rem = "other"
  THEN [raised |-> "IndexError", gitRemote |-> "None", subs |-> ss,
        log |-> {"repo_loaded"}, fail |-> "none"]
  ELSE LET remote == IF rem = "origin" THEN "origin" ELSE "None"
           lg == {"repo_loaded"} \cup (IF rem = "none" THEN {"no_remote"} ELSE {})
       IN IF NeedsSubmoduleClone(isSub, ss) /\ ~netOk
          THEN [raised |-> "GitCommandError", gitRemote |-> remote, subs |-> ss,
                log |-> lg, fail |-> "submodule_clone"]
          ELSE [raised |-> "ok", gitRemote |-> remote,
                subs |-> InitSubmodules(isSub, ss), log |-> lg, fail |-> "none"]

\* The facades the application constructs on a repository that is there: the wrapper
\* on its own clone (.git is a directory), a resource repository on a submodule
\* checkout (.git is a file). Where there is no repository, either name is used.
NameFits(name) ==
  repoValid => (name = "wrapper") = (gitEntry = "dir")

\* GitUtils(path, name, subject)
Construct(name, netOk) ==
  /\ phase = "unopened"
  /\ NameFits(name)
  /\ op' = "init" /\ arg' = name /\ nPull' = 0 /\ listed' = {}
  /\ pre' = [Snapshot EXCEPT !.isAvailable = FALSE]
  /\ git_name' = name
  /\ is_submodule' = (gitEntry = "file")
  /\ LET warn == IF AbortLoading /\ name = "wrapper" THEN {"not_git_clone"} ELSE {}
     IN
     IF gitModule # "ok"
     THEN /\ isAvailable' = FALSE /\ gitRepo' = "unset" /\ gitRemote' = "unset"
          /\ phase' = "constructed" /\ ret' = "None" /\ fail' = "none"
          /\ log' = warn \cup {"git_not_installed"}
          /\ UNCHANGED world
     ELSE IF AbortLoading
     THEN /\ isAvailable' = FALSE /\ gitRepo' = "None" /\ gitRemote' = "None"
          /\ phase' = "constructed" /\ ret' = "None" /\ log' = warn
          /\ fail' = "none"
          /\ UNCHANGED world
     ELSE IF OpenRepo = "InvalidGitRepositoryError"
     THEN /\ isAvailable' = FALSE /\ gitRepo' = "None" /\ gitRemote' = "None"
          /\ phase' = "constructed" /\ ret' = "None" /\ fail' = "none"
          /\ log' = warn \cup {"invalid_repo"}
          /\ UNCHANGED world
     ELSE IF OpenRepo # "ok"
     THEN /\ isAvailable' = FALSE /\ gitRepo' = "None" /\ gitRemote' = "None"
          /\ phase' = "failed" /\ ret' = OpenRepo /\ log' = warn
          /\ fail' = "none"
          /\ UNCHANGED world
     ELSE LET r == InitRepo(remotes, gitEntry = "file", subs, netOk)
          IN /\ isAvailable' = TRUE /\ gitRepo' = "Repo"
             /\ gitRemote' = r.gitRemote
             /\ subs' = r.subs
             /\ log' = warn \cup r.log /\ fail' = r.fail
             /\ phase' = IF r.raised = "ok" THEN "constructed" ELSE "failed"
             /\ ret' = IF r.raised = "ok" THEN "None" ELSE r.raised
             /\ UNCHANGED <<gitModule, gitEntry, repoValid, remotes, singleBranch, head,
                            detachedAt, heads, originRefs, upstream, dirty, subUp>>

\* ------------------------------------------------------------------- clone
\* git clone: it refuses a destination that holds something already, and the
\* network may fail.
Cloneable(netOk) == netOk /\ gitEntry \in {"missing", "absent"}

\* Repo.clone_from(url, path, multi_options), line 90: what the call raises.
CloneFrom(netOk) == IF Cloneable(netOk) THEN "ok" ELSE "GitCommandError"

\* The references a clone creates: --depth=1 fetches the default branch only.
ClonedRefs(optimize) ==
  [b \in Branches |-> IF optimize /\ b # DefaultBranch THEN NoRef ELSE upstream[b]]

\* clone(repo_url, optimize_disk_space)
Clone(optimize, netOk, subOk) ==
  /\ phase = "constructed"
  /\ op' = "clone" /\ arg' = (IF optimize THEN "--depth=1" ELSE "") /\ nPull' = 0
  /\ listed' = {}
  /\ pre' = Snapshot
  /\ IF isAvailable
     THEN /\ ret' = "False" /\ log' = {"already_cloned"} /\ fail' = "none"
          /\ UNCHANGED <<world, facade>>
     ELSE IF gitModule # "ok"
     THEN /\ ret' = "False" /\ log' = {"git_not_installed"} /\ fail' = "none"
          /\ UNCHANGED <<world, facade>>
     ELSE IF CloneFrom(netOk) # "ok"
     THEN /\ ret' = CloneFrom(netOk) /\ log' = {} /\ fail' = "clone_from"
          /\ UNCHANGED <<world, facade>>
     ELSE \* clone_from returned: the repository is what git made of the path, the
          \* facade goes on to __init_repo.
          LET done == Cloneable(netOk)
              r == InitRepo("origin", is_submodule, [s \in Submodules |-> NoSub], subOk)
          IN /\ gitEntry' = (IF done THEN "dir" ELSE gitEntry)
             /\ repoValid' = done
             /\ remotes' = (IF done THEN "origin" ELSE remotes)
             /\ singleBranch' = (done /\ optimize)
             /\ head' = (IF done THEN DefaultBranch ELSE head)
             /\ detachedAt' = NoRef
             /\ heads' = [b \in Branches |->
                            IF done /\ b = DefaultBranch THEN upstream[b] ELSE NoRef]
             /\ originRefs' = (IF done THEN ClonedRefs(optimize) ELSE NoRefs)
             /\ dirty' = FALSE
             /\ subs' = r.subs
             /\ gitRepo' = "Repo" /\ isAvailable' = TRUE /\ gitRemote' = r.gitRemote
             /\ ret' = (IF r.raised = "ok" THEN "True" ELSE r.raised)
             /\ log' = r.log
             /\ fail' = (IF done THEN r.fail ELSE "clone_from")
             /\ UNCHANGED <<gitModule, upstream, subUp, phase, is_submodule, git_name>>

\* ----------------------------------------------------------------- queries
\* The start of every call on the constructed facade.
Called(name, a) ==
  /\ phase = "constructed"
  /\ op' = name /\ arg' = a /\ pre' = Snapshot

\* The call ends by raising exc to its caller, having changed nothing.
Raises(exc) ==
  /\ ret' = exc /\ log' = {} /\ nPull' = 0 /\ fail' = "none"
  /\ UNCHANGED <<world, facade>>

\* The call returns r, having changed nothing.
Returns(r, lg) ==
  /\ ret' = r /\ log' = lg /\ nPull' = 0 /\ fail' = "none"
  /\ UNCHANGED <<world, facade>>

\* getCurrentBranch()
GetCurrentBranch ==
  /\ Called("getCurrentBranch", "")
  /\ listed' = {}
  /\ IF ~isAvailable THEN Raises("AssertionError")
     ELSE Returns(head, IF head = None THEN {"detached"} ELSE {})

\* listBranch(): the branch part of every reference the fetch reports.
ListBranch(fetchOk) ==
  /\ Called("listBranch", "")
  /\ nPull' = 0
  /\ IF ~isAvailable
     THEN /\ ret' = "AssertionError" /\ log' = {} /\ fail' = "none" /\ listed' = {}
          /\ UNCHANGED <<world, facade>>
     ELSE IF gitRemote = "None"
     THEN /\ ret' = "list" /\ log' = {} /\ fail' = "none" /\ listed' = {}
          /\ UNCHANGED <<world, facade>>
     ELSE IF ~fetchOk
     THEN /\ ret' = "GitCommandError" /\ log' = {} /\ fail' = "fetch" /\ listed' = {}
          /\ UNCHANGED <<world, facade>>
     ELSE /\ ret' = "list" /\ log' = {} /\ fail' = "none"
          /\ listed' = {b \in Branches : Fetched(b)}
          /\ originRefs' = FetchRefs
          /\ UNCHANGED <<gitModule, gitEntry, repoValid, remotes, singleBranch, head,
                         detachedAt, heads, upstream, dirty, subs, subUp, facade>>

\* A slip in safeCheck: is_dirty() with its default, which looks into submodules.
IsDirtyWithSubmodules == dirty \/ \E s \in Submodules : subs[s].dirty

\* Repo.is_dirty(submodules=False): changes inside submodules are not looked at.
IsDirty == dirty

\* A slip in safeCheck: the result of is_dirty is logged and then not returned.
SafeCheckIgnoresDirty == ~(gitRepo = "None" \/ gitRemote = "None")

\* safeCheck(): its result and what it logs.
SafeCheckResult ==
  IF gitRepo = "None" \/ gitRemote = "None" THEN FALSE ELSE ~IsDirty
SafeCheckLog ==
  IF gitRepo # "None" /\ gitRemote # "None" /\ IsDirty THEN {"unsaved_change"} ELSE {}

SafeCheck ==
  /\ Called("safeCheck", "")
  /\ listed' = {}
  /\ IF ~isAvailable THEN Raises("AssertionError")
     ELSE Returns(IF SafeCheckResult THEN "True" ELSE "False", SafeCheckLog)

\* The body of isUpToDate(branch) on an available facade: what it returns or raises,
\* what it logs, whether it fetched, and the command that failed.
UpToDate(branch, fetchOk) ==
  LET b == IF branch = None THEN head ELSE branch
      out(r, lg, f, fl) == [ret |-> r, log |-> lg, fetched |-> f, fail |-> fl]
  IN IF b = None THEN out("False", {"detached", "no_branch"}, FALSE, "none")
     ELSE IF gitRemote = "None" THEN out("AssertionError", {}, FALSE, "none")
     ELSE IF ~Exists(heads, b) THEN out("IndexError", {}, FALSE, "none")
     ELSE IF ~fetchOk THEN out("GitCommandError", {}, FALSE, "fetch")
     ELSE IF ~Fetched(b) THEN out("True", {"local_branch"}, TRUE, "none")
     ELSE IF IsAncestor(upstream[b], heads[b]) THEN out("True", {}, TRUE, "none")
     ELSE out("False", {}, TRUE, "none")

\* isUpToDate(branch)
IsUpToDate(branch, fetchOk) ==
  /\ Called("isUpToDate", branch)
  /\ listed' = {}
  /\ IF ~isAvailable THEN Raises("AssertionError")
     ELSE LET r == UpToDate(branch, fetchOk)
          IN /\ ret' = r.ret /\ log' = r.log /\ fail' = r.fail /\ nPull' = 0
             /\ originRefs' = IF r.fetched THEN FetchRefs ELSE originRefs
             /\ UNCHANGED <<gitModule, gitEntry, repoValid, remotes, singleBranch, head,
                            detachedAt, heads, upstream, dirty, subs, subUp, facade>>

\* ------------------------------------------------------------------ update
\* Remote.pull(): the current branch after merging the remote's branch into it.
Pulled == [heads EXCEPT ![head] = @ \cup upstream[head]]

\* update()
Update(fetchOk, pullOk) ==
  /\ Called("update", "")
  /\ listed' = {}
  /\ IF ~isAvailable THEN Raises("AssertionError")
     ELSE IF ~SafeCheckResult THEN Returns("False", SafeCheckLog)
     ELSE IF head = None THEN Returns("False", {"detached"})
     ELSE LET r == UpToDate(None, fetchOk)
              rest == <<gitModule, gitEntry, repoValid, remotes, singleBranch, head,
                        detachedAt, upstream, dirty, subs, subUp, facade>>
          IN IF r.ret \notin {"True", "False"}
             THEN /\ ret' = r.ret /\ log' = r.log /\ fail' = r.fail /\ nPull' = 0
                  /\ UNCHANGED <<heads, originRefs, rest>>
             ELSE IF r.ret = "True"
             THEN /\ ret' = "False" /\ log' = r.log \cup {"already_up_to_date"}
                  /\ fail' = "none" /\ nPull' = 0
                  /\ originRefs' = FetchRefs
                  /\ UNCHANGED <<heads, rest>>
             ELSE IF gitRemote = "None"
             THEN /\ ret' = "False" /\ log' = r.log /\ fail' = "none" /\ nPull' = 0
                  /\ originRefs' = FetchRefs
                  /\ UNCHANGED <<heads, rest>>
             ELSE IF ~pullOk
             THEN /\ ret' = "GitCommandError" /\ log' = {"using_branch"}
                  /\ fail' = "pull" /\ nPull' = 1
                  /\ originRefs' = FetchRefs
                  /\ UNCHANGED <<heads, rest>>
             ELSE /\ ret' = "True" /\ log' = {"using_branch", "updated"}
                  /\ fail' = "none" /\ nPull' = 1
                  /\ originRefs' = FetchRefs
                  /\ heads' = Pulled
                  /\ UNCHANGED rest

\* -------------------------------------------------------------- submodules
\* Submodule.update(to_latest_revision=True, recursive=True) on submodule state m
\* whose upstream is at revision latest: a missing submodule is cloned, an existing
\* one is fetched; the checkout moves to the latest revision, which GitPython
\* refuses (RepositoryDirtyError) when the move would reset local modifications.
SubmoduleUpdate(m, latest, netOk) ==
  IF ~netOk THEN [raised |-> "GitCommandError", sub |-> m]
  ELSE IF ~m.init
  THEN [raised |-> "ok", sub |-> [init |-> TRUE, rev |-> latest, dirty |-> FALSE]]
  ELSE IF m.rev # latest /\ m.dirty THEN [raised |-> "RepositoryDirtyError", sub |-> m]
  ELSE [raised |-> "ok", sub |-> [m EXCEPT !.rev = latest]]

\* submoduleSourceUpdate(name)
SubmoduleSourceUpdate(name, netOk) ==
  /\ Called("submoduleSourceUpdate", name)
  /\ listed' = {}
  /\ IF ~isAvailable THEN Returns("False", {})
     ELSE IF name \notin Submodules THEN Returns("False", {"submodule_not_found"})
     ELSE LET r == SubmoduleUpdate(subs[name], subUp[name], netOk)
          IN /\ nPull' = 0
             /\ subs' = [subs EXCEPT ![name] = r.sub]
             /\ ret' = CASE r.raised = "ok" -> "True"
                         [] r.raised = "RepositoryDirtyError" -> "False"
                         [] OTHER -> r.raised
             /\ log' = CASE r.raised = "ok" -> {"submodule_updated"}
                         [] r.raised = "RepositoryDirtyError" ->
                              {"submodule_dirty", "aborting"}
                         [] OTHER -> {}
             /\ fail' = IF r.raised = "GitCommandError" THEN "submodule_fetch" ELSE "none"
             /\ UNCHANGED <<gitModule, gitEntry, repoValid, remotes, singleBranch, head,
                            detachedAt, heads, originRefs, upstream, dirty, subUp, facade>>

\* ---------------------------------------------------------------- checkout
\* The three VCS commands of checkout(branch), in order; failAt names the one that
\* raises GitCommandError, "none" when all succeed.
CheckoutSteps == <<"checkout_ref", "create_head", "checkout_head">>
FailPoints == {"none"} \cup {CheckoutSteps[i] : i \in 1..Len(CheckoutSteps)}

\* A slip in checkout: the new local branch is created from the current HEAD, the
\* checkout of origin/<branch> forgotten.
CheckoutBodyFromHead(branch, failAt) ==
  LET st(h, d, hs, r, fl) ==
        [head |-> h, detachedAt |-> d, heads |-> hs, raised |-> r, fail |-> fl]
      created == IF Exists(heads, branch) THEN heads
                 ELSE [heads EXCEPT ![branch] = HeadCommit]
  IN IF ~Exists(heads, branch) /\ ~Exists(originRefs, branch)
     THEN st(head, detachedAt, heads, "IndexError", "none")
     ELSE IF failAt # "none"
     THEN st(head, detachedAt, heads, "GitCommandError", failAt)
     ELSE st(branch, NoRef, created, "ok", "none")

\* The try block of checkout(branch), lines 240-245: the head, the detached commit
\* and the local branches it leaves, and whether it ran to its end.
CheckoutBody(branch, failAt) ==
  LET st(h, d, hs, r, fl) ==
        [head |-> h, detachedAt |-> d, heads |-> hs, raised |-> r, fail |-> fl]
  IN IF ~Exists(heads, branch)
     THEN IF ~Exists(originRefs, branch)
          THEN st(head, detachedAt, heads, "IndexError", "none")
          ELSE IF failAt = "checkout_ref"
          THEN st(head, detachedAt, heads, "GitCommandError", failAt)
          ELSE IF failAt = "create_head"
          THEN st(None, originRefs[branch], heads, "GitCommandError", failAt)
          ELSE LET created == [heads EXCEPT ![branch] = originRefs[branch]]
               IN IF failAt = "checkout_head"
                  THEN st(None, originRefs[branch], created, "GitCommandError", failAt)
                  ELSE st(branch, NoRef, created, "ok", "none")
     ELSE IF failAt = "checkout_head"
          THEN st(head, detachedAt, heads, "GitCommandError", failAt)
          ELSE st(branch, NoRef, heads, "ok", "none")

\* checkout(branch)
Checkout(branch, failAt) ==
  /\ Called("checkout", branch)
  /\ listed' = {}
  /\ IF ~isAvailable THEN Raises("AssertionError")
     ELSE IF ~SafeCheckResult THEN Returns("False", SafeCheckLog)
     ELSE IF branch = head THEN Returns("False", {"already_current"})
     ELSE LET r == CheckoutBody(branch, failAt)
          IN /\ head' = r.head /\ detachedAt' = r.detachedAt /\ heads' = r.heads
             /\ nPull' = 0 /\ fail' = r.fail
             /\ ret' = IF r.raised = "ok" THEN "True" ELSE "False"
             /\ log' = CASE r.raised = "ok" -> {"checkout_done"}
                         [] r.raised = "IndexError" -> {"branch_not_found"}
                         [] OTHER -> {"checkout_failed"}
             /\ UNCHANGED <<gitModule, gitEntry, repoValid, remotes, singleBranch,
                            originRefs, upstream, dirty, subs, subUp, facade>>

\* --------------------------------------------------------------- accessors
\* getName(), getSubject(), isSubModule(): no side effect.
GetName ==
  /\ Called("getName", "")
  /\ listed' = {}
  /\ Returns(git_name, {})

IsSubModule ==
  /\ Called("isSubModule", "")
  /\ listed' = {}
  /\ Returns(IF is_submodule THEN "True" ELSE "False", {})

\* ---------------------------------------------------------------- the world
\* What happens to the repository between two calls of the facade: the user edits,
\* commits and detaches HEAD, the remote and the submodules' upstreams move on.
\* At most MaxEnvSteps such events happen in one run, all of them on the repository
\* of an available facade (Init draws the world the facade is constructed on).
RepoOnDisk == gitEntry \in {"dir", "file"} /\ repoValid
NoSnapshot == [isAvailable |-> FALSE, head |-> None, detachedAt |-> NoRef,
               heads |-> NoRefs, subs |-> [s \in Submodules |-> NoSub]]

Event ==
  /\ phase = "constructed" /\ isAvailable
  /\ envSteps < MaxEnvSteps
  /\ envSteps' = envSteps + 1
  /\ op' = "event" /\ arg' = "" /\ ret' = "" /\ log' = {} /\ nPull' = 0
  /\ listed' = {} /\ fail' = "none"
  /\ pre' = [NoSnapshot EXCEPT !.isAvailable = isAvailable]
  /\ UNCHANGED facade

\* The user changes (or restores) a tracked file of the working tree.
EditWorkingTree ==
  /\ RepoOnDisk /\ Event
  /\ dirty' = ~dirty
  /\ UNCHANGED <<gitModule, gitEntry, repoValid, remotes, singleBranch, head,
                 detachedAt, heads, originRefs, upstream, subs, subUp>>

\* Commits are told apart by the changes they hold, so which change a commit adds
\* does not matter: local commits take the lowest unused one, pushes the highest.
Lowest(S) == CHOOSE c \in S : \A d \in S : c <= d
Highest(S) == CHOOSE c \in S : \A d \in S : c >= d

\* The user commits change c on the current branch.
LocalCommit(c) ==
  /\ RepoOnDisk /\ head # None /\ Changes \ heads[head] # {}
  /\ c = Lowest(Changes \ heads[head]) /\ Event
  /\ heads' = [heads EXCEPT ![head] = @ \cup {c}]
  /\ UNCHANGED <<gitModule, gitEntry, repoValid, remotes, singleBranch, head,
                 detachedAt, originRefs, upstream, dirty, subs, subUp>>

\* Somebody pushes change c to branch b of the remote, creating b if need be.
UpstreamPush(b, c) ==
  /\ Event
  /\ IF Exists(upstream, b)
     THEN /\ Changes \ upstream[b] # {}
          /\ c = Highest(Changes \ upstream[b])
          /\ upstream' = [upstream EXCEPT ![b] = @ \cup {c}]
     ELSE /\ c = Highest(Changes)
          /\ upstream' = [upstream EXCEPT ![b] = {c}]
  /\ UNCHANGED <<gitModule, gitEntry, repoValid, remotes, singleBranch, head,
                 detachedAt, heads, originRefs, dirty, subs, subUp>>

\* The user checks a commit out directly: HEAD is detached.
DetachHead ==
  /\ RepoOnDisk /\ head # None /\ Event
  /\ head' = None /\ detachedAt' = heads[head]
  /\ UNCHANGED <<gitModule, gitEntry, repoValid, remotes, singleBranch, heads,
                 originRefs, upstream, dirty, subs, subUp>>

\* The user edits (or restores) a file inside submodule s.
EditSubmodule(s) ==
  /\ RepoOnDisk /\ subs[s].init /\ Event
  /\ subs' = [subs EXCEPT ![s].dirty = ~@]
  /\ UNCHANGED <<gitModule, gitEntry, repoValid, remotes, singleBranch, head,
                 detachedAt, heads, originRefs, upstream, dirty, subUp>>

\* The upstream of submodule s gets a new revision.
SubmoduleUpstreamPush(s) ==
  /\ subUp[s] < MaxSubRev /\ Event
  /\ subUp' = [subUp EXCEPT ![s] = @ + 1]
  /\ UNCHANGED <<gitModule, gitEntry, repoValid, remotes, singleBranch, head,
                 detachedAt, heads, originRefs, upstream, dirty, subs>>

\* ------------------------------------------------------------ specification
Init ==
  /\ gitModule \in {"ok", "ModuleNotFoundError", "ImportError"}
  /\ gitEntry \in {"missing", "absent", "dir", "file"}
  /\ repoValid \in BOOLEAN
  /\ (gitEntry \in {"missing", "absent"} => ~repoValid)
  /\ remotes \in (IF repoValid THEN {"none", "origin", "other"} ELSE {"none"})
  /\ (gitModule # "ok" => remotes \in {"none", "origin"})
  /\ singleBranch = FALSE
  /\ upstream \in {[b \in Branches |-> IF b = DefaultBranch THEN Root ELSE d] :
                     d \in {NoRef, Root}}
  /\ (gitModule # "ok" => ~Exists(upstream, "dev"))
  /\ head = (IF repoValid THEN DefaultBranch ELSE None)
  /\ detachedAt = NoRef
  /\ heads \in (IF repoValid
                THEN {[b \in Branches |-> IF b = DefaultBranch THEN Root ELSE d] :
                        d \in {NoRef, Root}}
                ELSE {NoRefs})
  /\ (gitModule # "ok" => ~Exists(heads, "dev"))
  /\ originRefs = (IF repoValid /\ remotes = "origin" THEN upstream ELSE NoRefs)
  /\ dirty = FALSE
  /\ subs = [s \in Submodules |-> NoSub]
  /\ subUp = [s \in Submodules |-> PinnedRev]
  /\ phase = "unopened" /\ isAvailable = FALSE /\ is_submodule = FALSE
  /\ git_name = "" /\ gitRepo = "unset" /\ gitRemote = "unset"
  /\ op = "none" /\ arg = "" /\ ret = "" /\ log = {} /\ nPull = 0 /\ listed = {}
  /\ fail = "none" /\ pre = NoSnapshot
  /\ envSteps = 0

Next ==
  \/ \E name \in Names, netOk \in BOOLEAN : Construct(name, netOk) /\ UNCHANGED envSteps
  \/ \E optimize, netOk, subOk \in BOOLEAN :
       Clone(optimize, netOk, subOk) /\ UNCHANGED envSteps
  \/ GetCurrentBranch /\ UNCHANGED envSteps
  \/ \E fetchOk \in BOOLEAN : ListBranch(fetchOk) /\ UNCHANGED envSteps
  \/ SafeCheck /\ UNCHANGED envSteps
  \/ \E b \in Branches \cup {None}, fetchOk \in BOOLEAN :
       IsUpToDate(b, fetchOk) /\ UNCHANGED envSteps
  \/ \E fetchOk, pullOk \in BOOLEAN : Update(fetchOk, pullOk) /\ UNCHANGED envSteps
  \/ \E name \in SubmoduleNames, netOk \in BOOLEAN :
       SubmoduleSourceUpdate(name, netOk) /\ UNCHANGED envSteps
  \/ \E b \in Branches, failAt \in FailPoints :
       Checkout(b, failAt) /\ UNCHANGED envSteps
  \/ GetName /\ UNCHANGED envSteps
  \/ IsSubModule /\ UNCHANGED envSteps
  \/ EditWorkingTree
  \/ \E c \in Changes : LocalCommit(c)
  \/ \E b \in Branches, c \in Changes : UpstreamPush(b, c)
  \/ DetachHead

Spec == Init /\ [][Next]_vars

\* The same facade on a repository whose submodules are edited and whose upstreams
\* move: the wrapper's clone, its submodules checked out or not.
InitSub == [init |-> TRUE, rev |-> PinnedRev, dirty |-> FALSE]

SubInit ==
  /\ gitModule = "ok" /\ gitEntry = "dir" /\ repoValid = TRUE
  /\ remotes \in {"none", "origin"}
  /\ singleBranch = FALSE
  /\ upstream = [b \in Branches |-> IF b = DefaultBranch THEN Root ELSE NoRef]
  /\ head = DefaultBranch /\ detachedAt = NoRef
  /\ heads = [b \in Branches |-> IF b = DefaultBranch THEN Root ELSE NoRef]
  /\ originRefs = (IF remotes = "origin" THEN upstream ELSE NoRefs)
  /\ dirty = FALSE
  /\ subs \in [Submodules -> {NoSub, InitSub}]
  /\ subUp = [s \in Submodules |-> PinnedRev]
  /\ phase = "unopened" /\ isAvailable = FALSE /\ is_submodule = FALSE
  /\ git_name = "" /\ gitRepo = "unset" /\ gitRemote = "unset"
  /\ op = "none" /\ arg = "" /\ ret = "" /\ log = {} /\ nPull = 0 /\ listed = {}
  /\ fail = "none" /\ pre = NoSnapshot
  /\ envSteps = 0

SubNext ==
  \/ \E name \in Names, netOk \in BOOLEAN : Construct(name, netOk) /\ UNCHANGED envSteps
  \/ SafeCheck /\ UNCHANGED envSteps
  \/ \E fetchOk, pullOk \in BOOLEAN : Update(fetchOk, pullOk) /\ UNCHANGED envSteps
  \/ \E name \in Submodules \cup SubmoduleNames, netOk \in BOOLEAN :
       SubmoduleSourceUpdate(name, netOk) /\ UNCHANGED envSteps
  \/ EditWorkingTree
  \/ \E s \in Submodules : EditSubmodule(s)
  \/ \E s \in Submodules : SubmoduleUpstreamPush(s)

SubSpec == SubInit /\ [][SubNext]_vars

\* ------------------------------------------------------------------ claims
\* What update() is to decide on, read after the call: safeCheck() and the current
\* branch are as before it, the remote as it was fetched, the local branch as it
\* was before the pull.
WasUpToDate ==
  ~Fetched(head) \/ upstream[head] \subseteq pre.heads[head]

\* C1: for an available facade, update() returns false without a pull when
\* safeCheck() is false, when HEAD is detached or when isUpToDate() is true; in
\* every other case it performs exactly one pull and returns true.
C1_UpdateDecision ==
  (op = "update" /\ isAvailable) =>
    IF ~SafeCheckResult \/ head = None \/ WasUpToDate
    THEN ret = "False" /\ nPull = 0
    ELSE ret = "True" /\ nPull = 1

\* C3: once construction has left the facade unavailable, isAvailable stays false
\* whatever is called; the only step that makes it true is a clone() call that
\* completes successfully, that is, returns true.
C3_AvailableOnlyByClone ==
  [][(phase = "constructed" /\ ~isAvailable /\ isAvailable') =>
       (op' = "clone" /\ ret' = "True")]_vars

\* C7: clone() on an available facade returns false and changes nothing; it returns
\* false when the VCS client cannot be loaded; when the clone succeeds the facade is
\* available afterwards and clone() returns true.
C7_Clone ==
  op = "clone" =>
    /\ pre.isAvailable =>
         ret = "False" /\ isAvailable /\ head = pre.head /\ heads = pre.heads
                       /\ subs = pre.subs
    /\ (~pre.isAvailable /\ gitModule # "ok") => (ret = "False" /\ ~isAvailable)
    /\ (~pre.isAvailable /\ gitModule = "ok" /\ fail # "clone_from") =>
         (isAvailable /\ ret = "True")

\* C9: constructing the facade on a path with no .git entry leaves it unavailable
\* and raises nothing, whatever the name and whether or not git can be imported.
C9_NoGitEntryUnavailable ==
  (op = "init" /\ gitEntry \in {"missing", "absent"}) =>
    (phase = "constructed" /\ ~isAvailable /\ ret = "None")

C9_Witness ==
  /\ op = "init" /\ gitEntry = "missing" /\ gitModule = "ok"
  /\ git_name = "exegol-resources" /\ phase = "constructed" /\ ~isAvailable

\* The repository and the counters of the last call are as before the call.
Untouched ==
  /\ head = pre.head /\ detachedAt = pre.detachedAt /\ heads = pre.heads
  /\ subs = pre.subs /\ nPull = 0 /\ fail = "none"

AskedBranch == IF arg = None THEN head ELSE arg

C6_SafeCheck ==
  (op = "safeCheck" /\ isAvailable) => ((ret = "True") = ~dirty)

\* C6 as amended: that holds where the remote is resolved; without a resolved remote
\* safeCheck() returns false.
C6_SafeCheckWithRemote ==
  /\ (op = "safeCheck" /\ isAvailable /\ gitRemote = "origin") =>
       ((ret = "True") = ~dirty)
  /\ (op = "safeCheck" /\ isAvailable /\ gitRemote = "None") => ret = "False"

C6_Witness ==
  /\ op = "safeCheck" /\ isAvailable /\ ret = "True"
  /\ \E s \in Submodules : subs[s].dirty

\* C8: submoduleSourceUpdate(name) on an available facade whose named submodule has
\* local modifications returns false and leaves the submodule as it was.
C8_DirtySubmodule ==
  (op = "submoduleSourceUpdate" /\ pre.isAvailable /\ arg \in Submodules
     /\ pre.subs[arg].dirty) => (ret = "False" /\ subs[arg] = pre.subs[arg])

\* C10: whenever checkout(branch) returns false, HEAD and the local branches are
\* what they were before the call.
C10_FailedCheckoutChangesNothing ==
  (op = "checkout" /\ ret = "False") =>
    (head = pre.head /\ detachedAt = pre.detachedAt /\ heads = pre.heads)

====
